---- MODULE Spec2Model ----
(***************************************************************************)
(* A model of the dag crate: the AcyclicGraph node/edge store              *)
(* (src/src/graph.rs), the level-by-level generator (src/src/generator.rs) *)
(* and the validator (src/src/validator.rs).                               *)
(*                                                                         *)
(* Two specifications are given.  Spec drives the public graph API        *)
(* (add_node / add_child) with arbitrary arguments.  GenSpec runs          *)
(* generate step by step and then the validator, as main does.            *)
(***************************************************************************)
EXTENDS Integers, Sequences, FiniteSets, TLC

\* ------------------------------------------------------------------ bounds

\* Size of the identifier universe of the API specification (a Uuid is 128
\* bits in the code).
NumUuid == 3
\* Size of the identifier universe the generator's random source draws from.
GenUuid == 4
\* Largest cfg.deepth the generator specification draws.
MaxDeepth == 3
\* Largest raw Normal sample the generator specification draws, in whole units.
MaxSample == 2

Uuid == 1..NumUuid

\* Every iteration order a HashMap / HashSet holding the identifiers S can
\* have: a sequence holding each identifier of S once.
RECURSIVE Orders(_)
Orders(S) ==
  IF S = {} THEN {<<>>}
  ELSE UNION {{<<x>> \o rest : rest \in Orders(S \ {x})} : x \in S}

\* The elements of set S in the iteration order ord.
IterOrder(S, ord) == SelectSeq(ord, LAMBDA x : x \in S)

\* ------------------------------------------------------------------ state

VARIABLES
  graph,     \* the AcyclicGraph: [name, nodes], nodes a map Uuid -> Node
  panicked,  \* the process has panicked (UUID collision, unwrap on Err)
  last,      \* the last API call: its arguments, result and the graph before it
  pc,        \* generator / main position
  cfg,       \* generator::Config
  current,   \* generate: the frontier
  next,      \* generate: the next frontier
  lvl,       \* generate: the loop variable of `for _ in 1..cfg.deepth`
  n,         \* generate: the level's target width
  i,         \* generate: the level's created count
  pos,       \* generate: index in current of the node being processed
  k,         \* generate: the node's branching factor
  j,         \* generate: the loop variable of `for _ in 0..k`
  widths,    \* history: the target width n of every level begun so far
  sampled,   \* history: the frontier nodes given a branching sample this level
  rng,       \* the StdRng seeded from cfg.seed, as the stream of its draws
  verdict    \* main: the validator's result

vars == <<graph, panicked, last, pc, cfg, current, next, lvl, n, i, pos, k, j,
          widths, sampled, rng, verdict>>

genvars == <<pc, cfg, current, next, lvl, n, i, pos, k, j, widths, sampled, rng,
             verdict>>

\* ------------------------------------------------------------------ graph.rs

\* Option<String> names and NodeData values the API specification passes.
NodeInputs == {<<"Node", "None">>}

Node_new(name, data) == [name |-> name, data |-> data, childs |-> {}]

AcyclicGraph_new(name) == [name |-> name, nodes |-> <<>>]

\* The keys of the node map.
Keys(g) == DOMAIN g.nodes

\* add_node_uuid: insert a fresh node, or panic when the uuid is occupied.
add_node_uuid(g, uuid, name, data) ==
  IF uuid \notin Keys(g)
  THEN [graph |-> [g EXCEPT !.nodes =
                     [u \in Keys(g) \cup {uuid} |->
                        IF u = uuid THEN Node_new(name, data) ELSE g.nodes[u]]],
        panic |-> FALSE]
  ELSE [graph |-> g, panic |-> TRUE]

\* The identifiers a scan that starts in S can meet: those reachable from the set S through zero or more edges.
RECURSIVE Closure(_, _)
Closure(g, S) ==
  LET T == S \cup UNION {g.nodes[u].childs : u \in S \cap Keys(g)}
  IN IF T = S THEN S ELSE Closure(g, T)

\* The loop of check_cycle: queue is the VecDeque, queued the HashSet.
RECURSIVE check_cycle_loop(_, _, _, _, _)
check_cycle_loop(g, parent, queue, queued, ord) ==
  IF queue = <<>>
  THEN "Ok"
  ELSE LET cur == Head(queue) IN
       IF cur = parent
       THEN "Cycle"
       ELSE IF cur \in Keys(g)
            THEN LET fresh == SelectSeq(IterOrder(g.nodes[cur].childs, ord),
                                        LAMBDA c : c \notin queued)
                 IN check_cycle_loop(g, parent, Tail(queue) \o fresh,
                                     queued \cup g.nodes[cur].childs, ord)
            ELSE "UuidNotFound"

\* The number of times the loop of check_cycle takes a node off the queue,
\* counted up to fuel + 1.
RECURSIVE check_cycle_steps(_, _, _, _, _, _)
check_cycle_steps(g, parent, queue, queued, ord, fuel) ==
  IF queue = <<>> THEN 0
  ELSE IF fuel = 0 THEN 1
  ELSE LET cur == Head(queue) IN
       IF cur = parent \/ cur \notin Keys(g)
       THEN 1
       ELSE LET fresh == SelectSeq(IterOrder(g.nodes[cur].childs, ord),
                                   LAMBDA c : c \notin queued)
            IN 1 + check_cycle_steps(g, parent, Tail(queue) \o fresh,
                                     queued \cup g.nodes[cur].childs, ord, fuel - 1)

\* A check_cycle that only looks at the starting node and never follows edges.
check_cycle_shallow(g, parent, child, ord) ==
  IF child = parent THEN "Cycle"
  ELSE IF child \in Keys(g) THEN "Ok" ELSE "UuidNotFound"

\* A check_cycle that treats a missing node as a leaf instead of an error.
check_cycle_lenient(g, parent, child, ord) ==
  IF child \in Keys(g) \/ child = parent
  THEN check_cycle_loop(g, parent, <<child>>, {child}, ord)
  ELSE "Ok"

check_cycle(g, parent, child, ord) ==
  check_cycle_loop(g, parent, <<child>>, {child}, ord)

get_node_mut(g, uuid) == IF uuid \in Keys(g) THEN "Ok" ELSE "UuidNotFound"

\* An insert that overwrites the children set with the new child alone.
InsertChild_replace(g, parent, child) ==
  [g EXCEPT !.nodes[parent].childs = {child}]

\* HashSet::insert of child into parent's childs.
InsertChild(g, parent, child) ==
  [g EXCEPT !.nodes[parent].childs = @ \cup {child}]

\* An add_child that inserts the edge before it runs the checks.
add_child_insert_first(g, parent, child, ord) ==
  LET g2 == IF parent \in Keys(g) THEN InsertChild(g, parent, child) ELSE g
      cyc == check_cycle(g, parent, child, ord)
  IN IF cyc # "Ok" THEN [graph |-> g2, result |-> cyc]
     ELSE IF get_node_mut(g, parent) # "Ok"
          THEN [graph |-> g2, result |-> "UuidNotFound"]
          ELSE IF child \notin g.nodes[parent].childs
               THEN [graph |-> g2, result |-> "Ok"]
               ELSE [graph |-> g2, result |-> "ChildAlreadyExist"]

\* An add_child that reports success when the edge is already there.
add_child_silent_dup(g, parent, child, ord) ==
  LET cyc == check_cycle(g, parent, child, ord)
  IN IF cyc # "Ok" THEN [graph |-> g, result |-> cyc]
     ELSE IF get_node_mut(g, parent) # "Ok"
          THEN [graph |-> g, result |-> "UuidNotFound"]
          ELSE [graph |-> InsertChild(g, parent, child), result |-> "Ok"]

add_child(g, parent, child, ord) ==
  LET cyc == check_cycle(g, parent, child, ord)
  IN IF cyc # "Ok" THEN [graph |-> g, result |-> cyc]
     ELSE IF get_node_mut(g, parent) # "Ok"
          THEN [graph |-> g, result |-> "UuidNotFound"]
          ELSE IF child \notin g.nodes[parent].childs
               THEN [graph |-> InsertChild(g, parent, child), result |-> "Ok"]
               ELSE [graph |-> g, result |-> "ChildAlreadyExist"]

\* The identifiers a traversal of g can meet: the keys and every child.
Met(g) == Keys(g) \cup UNION {g.nodes[u].childs : u \in Keys(g)}

\* An entry update that files the child under the node, not the node under
\* the child.
parents_entry_swapped(acc, child, uuid) ==
  [c \in DOMAIN acc \cup {uuid} |->
     (IF c \in DOMAIN acc THEN acc[c] ELSE {}) \cup (IF c = uuid THEN {child} ELSE {})]

\* parents.entry(child).or_default().insert(uuid)
parents_entry(acc, child, uuid) ==
  [c \in DOMAIN acc \cup {child} |->
     (IF c \in DOMAIN acc THEN acc[c] ELSE {}) \cup (IF c = child THEN {uuid} ELSE {})]

\* `for &child in &node.childs`, childs being the children still to come.
RECURSIVE parents_childs(_, _, _)
parents_childs(acc, uuid, childs) ==
  IF childs = <<>> THEN acc
  ELSE parents_childs(parents_entry(acc, Head(childs), uuid), uuid, Tail(childs))

\* `for (&uuid, node) in &self.nodes`, keys being the nodes still to come.
RECURSIVE parents_nodes(_, _, _, _)
parents_nodes(g, acc, keys, ord) ==
  IF keys = <<>> THEN acc
  ELSE parents_nodes(g,
         parents_childs(acc, Head(keys), IterOrder(g.nodes[Head(keys)].childs, ord)),
         Tail(keys), ord)

\* parents(): the map built by the two loops, empty at first.
parents(g, ord) == parents_nodes(g, <<>>, IterOrder(Keys(g), ord), ord)

\* ------------------------------------------------------------------ rendering

\* ShortUuid::from_uuid: a re-encoding of the identifier as text, one text per
\* identifier; the text is not the identifier and is not what is sorted.
ShortUuid_from_uuid(uuid) == <<"short", uuid>>

\* A sort that leaves the iteration order as it found it.
sorted_as_iterated(s) == s

\* Itertools::sorted / sorted_by_key on identifiers: the elements of s in
\* ascending order (insertion of each element into the sorted rest).
RECURSIVE sorted_insert(_, _)
sorted_insert(x, s) ==
  IF s = <<>> THEN <<x>>
  ELSE IF x <= Head(s) THEN <<x>> \o s
  ELSE <<Head(s)>> \o sorted_insert(x, Tail(s))

RECURSIVE sorted(_)
sorted(s) == IF s = <<>> THEN <<>> ELSE sorted_insert(Head(s), sorted(Tail(s)))

\* One line of rendered text, by its parts: what kind of line it is, the
\* node it declares, its label, and the children it points at, in order.
\* Every node of the model has a name (Some(name)), so every node line has
\* a label.
Line(kind, id, label, to) == [kind |-> kind, id |-> id, label |-> label, to |-> to]

\* The children of node uuid as the renderers write them.
RenderChilds(g, uuid, ord) ==
  LET cs == sorted(IterOrder(g.nodes[uuid].childs, ord))
  IN [x \in 1..Len(cs) |-> ShortUuid_from_uuid(cs[x])]

\* Dot: the node declaration, then the edge statement if there is a child.
dot_parent(g, uuid, ord) ==
  LET node == Line("node", ShortUuid_from_uuid(uuid), g.nodes[uuid].name, <<>>)
      to == RenderChilds(g, uuid, ord)
  IN IF to # <<>>
     THEN <<node, Line("edge", ShortUuid_from_uuid(uuid), "", to)>>
     ELSE <<node>>

RECURSIVE dot_parents(_, _, _)
dot_parents(g, keys, ord) ==
  IF keys = <<>> THEN <<>>
  ELSE dot_parent(g, Head(keys), ord) \o dot_parents(g, Tail(keys), ord)

\* format!("{}", graph.dot())
dot(g, ord) ==
  <<Line("digraph", <<>>, g.name, <<>>),
    Line("node [shape = box]", <<>>, "", <<>>),
    Line("graph [rankdir = TB]", <<>>, "", <<>>),
    Line("", <<>>, "", <<>>)>>
  \o dot_parents(g, sorted(IterOrder(Keys(g), ord)), ord)
  \o <<Line("}", <<>>, "", <<>>)>>

\* Mermaid: one line per node, the declaration and then ` --> a & b` if
\* there is a child.
mermaid_parent(g, uuid, ord) ==
  Line("node", ShortUuid_from_uuid(uuid), g.nodes[uuid].name,
       RenderChilds(g, uuid, ord))

\* format!("{}", graph.mermaid())
mermaid(g, ord) ==
  LET keys == sorted(IterOrder(Keys(g), ord))
  IN <<Line("---", <<>>, "", <<>>),
       Line("title", <<>>, g.name, <<>>),
       Line("---", <<>>, "", <<>>),
       Line("flowchart TB", <<>>, "", <<>>)>>
     \o [x \in 1..Len(keys) |-> mermaid_parent(g, keys[x], ord)]

\* ------------------------------------------------------------------ validator.rs

Max(a, b) == IF a >= b THEN a ELSE b

\* `a as f64 / b as f64`: IEEE division never traps; 0/0 is NaN, x/0 infinite.
FDiv(a, b) ==
  [kind |-> IF b # 0 THEN "finite" ELSE IF a = 0 THEN "NaN" ELSE "inf",
   num |-> a, den |-> b]

\* The while loop of deepths: one round moves from queue to the parents of
\* its members, giving each the depth current_deepth or keeping a larger one.
RECURSIVE deepths_loop(_, _, _, _)
deepths_loop(par, max_deepth_map, queue, current_deepth) ==
  IF queue = {}
  THEN max_deepth_map
  ELSE LET next_queue == UNION {par[u] : u \in queue \cap DOMAIN par}
           updated ==
             [u \in DOMAIN max_deepth_map \cup next_queue |->
                IF u \in next_queue
                THEN IF u \in DOMAIN max_deepth_map
                     THEN Max(max_deepth_map[u], current_deepth)
                     ELSE current_deepth
                ELSE max_deepth_map[u]]
       IN deepths_loop(par, updated, next_queue, current_deepth + 1)

\* The number of rounds of the while loop of deepths, counted up to fuel + 1.
RECURSIVE deepths_rounds(_, _, _)
deepths_rounds(par, queue, fuel) ==
  IF queue = {} THEN 0
  ELSE IF fuel = 0 THEN 1
  ELSE 1 + deepths_rounds(par, UNION {par[u] : u \in queue \cap DOMAIN par}, fuel - 1)

\* A deepths that keeps the first depth it gave a node (or_insert alone,
\* without and_modify).
RECURSIVE deepths_first_loop(_, _, _, _)
deepths_first_loop(par, max_deepth_map, queue, current_deepth) ==
  IF queue = {}
  THEN max_deepth_map
  ELSE LET next_queue == UNION {par[u] : u \in queue \cap DOMAIN par}
           updated ==
             [u \in DOMAIN max_deepth_map \cup next_queue |->
                IF u \in DOMAIN max_deepth_map
                THEN max_deepth_map[u]
                ELSE current_deepth]
       IN deepths_first_loop(par, updated, next_queue, current_deepth + 1)

deepths_first_seen(g, par) ==
  LET leaves == {u \in Keys(g) : g.nodes[u].childs = {}}
  IN deepths_first_loop(par, [u \in leaves |-> 0], leaves, 1)

\* A deepths that counts a leaf as depth 1.
deepths_leaf_one(g, par) ==
  LET leaves == {u \in Keys(g) : g.nodes[u].childs = {}}
  IN deepths_loop(par, [u \in leaves |-> 1], leaves, 2)

deepths(g, par) ==
  LET leaves == {u \in Keys(g) : g.nodes[u].childs = {}}
  IN deepths_loop(par, [u \in leaves |-> 0], leaves, 1)

max_deepth(g, par) ==
  LET d == deepths(g, par)
  IN IF DOMAIN d = {} THEN 0
     ELSE CHOOSE m \in {d[u] : u \in DOMAIN d} : \A u \in DOMAIN d : d[u] <= m

\* The children of every node of the sequence level, in order, duplicates kept.
RECURSIVE next_level_of(_, _, _)
next_level_of(g, level, ord) ==
  IF level = <<>> THEN <<>>
  ELSE (IF Head(level) \in Keys(g)
        THEN IterOrder(g.nodes[Head(level)].childs, ord)
        ELSE <<>>) \o next_level_of(g, Tail(level), ord)

RECURSIVE levels_loop(_, _, _, _)
levels_loop(g, acc, current_level, ord) ==
  IF current_level = <<>>
  THEN acc
  ELSE levels_loop(g, Append(acc, current_level),
                   next_level_of(g, current_level, ord), ord)

levels(g, root, ord) == levels_loop(g, <<>>, <<root>>, ord)

\* The number of rounds of the while loop of levels, counted up to fuel + 1.
RECURSIVE levels_rounds(_, _, _, _)
levels_rounds(g, current_level, ord, fuel) ==
  IF current_level = <<>> THEN 0
  ELSE IF fuel = 0 THEN 1
  ELSE 1 + levels_rounds(g, next_level_of(g, current_level, ord), ord, fuel - 1)

RECURSIVE total_len(_)
total_len(seqs) == IF seqs = <<>> THEN 0 ELSE Len(Head(seqs)) + total_len(Tail(seqs))

\* total_width / (levels.len() - 1): the usize subtraction overflows (a panic
\* in a debug build) only for an empty levels vector.
average_width_without_root(g, root, ord) ==
  LET lv == levels(g, root, ord)
      total_width == total_len(Tail(lv))
  IN IF Len(lv) < 1
     THEN [kind |-> "panic", num |-> 0, den |-> 0]
     ELSE FDiv(total_width, Len(lv) - 1)

roots(g, par, ord) ==
  SelectSeq(IterOrder(Keys(g), ord), LAMBDA u : u \notin DOMAIN par)

RECURSIVE have_only_one_path_loop(_, _, _, _)
have_only_one_path_loop(g, queue, visited, ord) ==
  IF queue = <<>>
  THEN TRUE
  ELSE LET cur == Head(queue) IN
       IF cur \in Keys(g)
       THEN IF g.nodes[cur].childs \cap visited # {}
            THEN FALSE
            ELSE have_only_one_path_loop(
                   g, Tail(queue) \o IterOrder(g.nodes[cur].childs, ord),
                   visited \cup g.nodes[cur].childs, ord)
       ELSE have_only_one_path_loop(g, Tail(queue), visited, ord)

\* The number of times the loop of have_only_one_path takes a node off the
\* queue, counted up to fuel + 1.
RECURSIVE have_only_one_path_steps(_, _, _, _, _)
have_only_one_path_steps(g, queue, visited, ord, fuel) ==
  IF queue = <<>> THEN 0
  ELSE IF fuel = 0 THEN 1
  ELSE LET cur == Head(queue) IN
       IF cur \in Keys(g)
       THEN IF g.nodes[cur].childs \cap visited # {}
            THEN 1
            ELSE 1 + have_only_one_path_steps(
                       g, Tail(queue) \o IterOrder(g.nodes[cur].childs, ord),
                       visited \cup g.nodes[cur].childs, ord, fuel - 1)
       ELSE 1 + have_only_one_path_steps(g, Tail(queue), visited, ord, fuel - 1)

\* A have_only_one_path whose walk skips a visited child instead of failing:
\* whatever the graph, it ends with true.
have_only_one_path_skip(g, root, ord) == TRUE

have_only_one_path(g, root, ord) ==
  have_only_one_path_loop(g, <<root>>, {root}, ord)

NoStat == [kind |-> "none", num |-> 0, den |-> 0]

\* validator: the statistics, then the two checks.  c (the Config) is only printed.
validator(g, c, ord) ==
  LET childs_count ==
        Cardinality({e \in Keys(g) \X Met(g) : e[2] \in g.nodes[e[1]].childs})
      nodes_with_child_count == Cardinality({u \in Keys(g) : g.nodes[u].childs # {}})
      average_childs == FDiv(childs_count, nodes_with_child_count)
      par == parents(g, ord)
      md == max_deepth(g, par)
      rs == roots(g, par, ord)
      rep == [result |-> "Err", why |-> "roots", root_count |-> Len(rs),
              max_deepth |-> md, average_childs |-> average_childs,
              average_width |-> NoStat]
  IN IF Len(rs) # 1
     THEN rep
     ELSE LET average_width == average_width_without_root(g, rs[1], ord) IN
          IF average_width.kind = "panic"
          THEN [rep EXCEPT !.result = "panic", !.why = "overflow"]
          ELSE IF have_only_one_path(g, rs[1], ord)
               THEN [rep EXCEPT !.result = "Ok", !.why = "none",
                                !.average_width = average_width]
               ELSE [rep EXCEPT !.why = "paths", !.average_width = average_width]

\* ------------------------------------------------------------------ API calls

NoCall == [op |-> "none", parent |-> 0, child |-> 0, uuid |-> 0,
           result |-> "none", before |-> AcyclicGraph_new("Test Graph"),
           again |-> FALSE]

GenIdle == /\ pc = "idle" /\ cfg = [deepth |-> 0, dist_ok |-> TRUE]
           /\ current = <<>> /\ next = <<>> /\ lvl = 0 /\ n = 0 /\ i = 0
           /\ pos = 0 /\ k = 0 /\ j = 0 /\ widths = <<>> /\ verdict = "none"
           /\ sampled = {}

\* The random source: mode "free" draws anything; "record" also writes every
\* draw on the tape; "replay" is a second call of generate under the same
\* seed, which draws what the tape holds.  first keeps the graph the first
\* call returned.
Rng(mode) == [mode |-> mode, tape |-> <<>>, first |-> AcyclicGraph_new("none")]

Init ==
  /\ graph = AcyclicGraph_new("Test Graph")
  /\ panicked = FALSE
  /\ last = NoCall
  /\ GenIdle
  /\ rng = Rng("free")

\* graph.add_node(name, data): Uuid::new_v4() may be any identifier.
AddNode ==
  /\ ~panicked
  /\ \E uuid \in Uuid, inp \in NodeInputs :
       LET r == add_node_uuid(graph, uuid, inp[1], inp[2]) IN
       /\ graph' = r.graph
       /\ panicked' = r.panic
       /\ last' = [op |-> "add_node", parent |-> 0, child |-> 0, uuid |-> uuid,
                   result |-> IF r.panic THEN "panic" ELSE "Ok",
                   before |-> graph, again |-> FALSE]
  /\ UNCHANGED genvars

\* graph.add_child(parent, child) with any two identifiers, present or not.
AddChild ==
  /\ ~panicked
  /\ \E parent \in Uuid, child \in Uuid :
     \E r \in {add_child(graph, parent, child, ord) :
                ord \in Orders(Closure(graph, {child}))} :
       /\ graph' = r.graph
       /\ last' = [op |-> "add_child", parent |-> parent, child |-> child,
                   uuid |-> 0, result |-> r.result, before |-> graph,
                   again |-> /\ last.op = "add_child"
                             /\ last.parent = parent
                             /\ last.child = child
                             /\ last.result = "Ok"]
  /\ UNCHANGED <<panicked>>
  /\ UNCHANGED genvars

Next == AddNode \/ AddChild

Spec == Init /\ [][Next]_vars

\* ------------------------------------------------------------------ generator.rs

GenIds == 1..GenUuid

\* Raw samples of a Normal distribution, in halves: h stands for h / 2.
HalfSamples == (-2)..(2 * MaxSample)

\* f64::round on h / 2: to the nearest integer, halves away from zero.
RoundHalf(h) == IF h >= 0 THEN (h + 1) \div 2 ELSE -((1 - h) \div 2)

\* width_dist.sample(..).round().max(1.0) as usize
TargetWidth(h) == Max(RoundHalf(h), 1)

\* child_dist.sample(..).round().max(0.0) as usize
Branching(h) == Max(RoundHalf(h), 0)

\* A width check that lets one node too many through.
WidthReached_late(created, width) == created > width

\* `if i >= n { break 'outer }`
WidthReached(created, width) == created >= width

\* An attach that passes the two identifiers in the wrong order.
GenAttach_reversed(g, node, uuid, ord) == add_child(g, uuid, node, ord)

\* An attach under the first node the hash map yields, not under the
\* frontier node.
GenAttach_hashed(g, node, uuid, ord) ==
  add_child(g, Head(IterOrder(Keys(g) \ {uuid}, ord)), uuid, ord)

\* An attach that passes the new identifier on both sides.
GenAttach_self(g, node, uuid, ord) == add_child(g, uuid, uuid, ord)

\* graph.add_child(node, uuid) of the inner loop.
GenAttach(g, node, uuid, ord) == add_child(g, node, uuid, ord)

Range(s) == {s[x] : x \in 1..Len(s)}

\* One draw of the random source: a Normal sample h, a shuffle perm, or an
\* identifier uuid (the fields a draw does not use are 0 and <<>>).  Of a
\* sample the tape keeps the rounded, clamped value, which is all generate
\* uses of it: a replay is any call whose samples round as the first call's
\* did, the calls that draw the very same samples among them.
Draw(h, perm, uuid) == [h |-> h, perm |-> perm, uuid |-> uuid]

\* The same seed yields the same stream: a replayed call can only draw what
\* the first call drew at this point.
CanDraw(d) == rng.mode = "replay" => (rng.tape # <<>> /\ Head(rng.tape) = d)

\* The random source after the draw d.
Drawn(d) ==
  CASE rng.mode = "record" -> [rng EXCEPT !.tape = Append(@, d)]
    [] rng.mode = "replay" -> [rng EXCEPT !.tape = Tail(@)]
    [] OTHER -> rng

\* A level loop that runs once more than `1..cfg.deepth` does.
LevelsLeft_inclusive(l, deepth) == l <= deepth

\* `for _ in 1..cfg.deepth` has another round, l being the loop variable.
LevelsLeft(l, deepth) == l < deepth

\* A break that leaves only `for _ in 0..k` and goes on with the next node.
BreakOuter_inner(p) == [pc |-> "node", pos |-> p + 1]

\* `break 'outer`: leaves `'outer: for &node in &current` at position p.
BreakOuter(p) == [pc |-> "swap", pos |-> p]

\* generate up to the loop: the samplers are built, then the graph and its
\* root.  Normal::new refusing its parameters returns Err before any node.
\* A replayed call is made with the configuration of the first call.
GenStart ==
  /\ pc = "idle" /\ last.op = "none"
  /\ \E d \in 1..MaxDeepth, ok \in BOOLEAN, uuid \in GenIds :
       /\ rng.mode = "replay" => (d = cfg.deepth /\ ok = cfg.dist_ok)
       /\ cfg' = [deepth |-> d, dist_ok |-> ok]
       /\ IF ok
          THEN LET r == add_node_uuid(AcyclicGraph_new("output"), uuid, "Root", "Text") IN
               /\ CanDraw(Draw(0, <<>>, uuid))
               /\ rng' = Drawn(Draw(0, <<>>, uuid))
               /\ graph' = r.graph
               /\ current' = <<uuid>>
               /\ lvl' = 1
               /\ pc' = "level"
          ELSE /\ pc' = "error"
               /\ UNCHANGED <<graph, current, lvl, rng>>
  /\ UNCHANGED <<panicked, last, next, n, i, pos, k, j, widths, sampled, verdict>>

\* `for _ in 1..cfg.deepth`: leave the loop and return, or begin a level:
\* sample its width, clear next, reset i, shuffle the frontier.
GenLevel ==
  /\ pc = "level"
  /\ IF LevelsLeft(lvl, cfg.deepth)
     THEN \E h \in HalfSamples, shuffled \in Orders(Range(current)) :
            /\ CanDraw(Draw(TargetWidth(h), shuffled, 0))
            /\ rng' = Drawn(Draw(TargetWidth(h), shuffled, 0))
            /\ n' = TargetWidth(h)
            /\ widths' = Append(widths, TargetWidth(h))
            /\ next' = <<>>
            /\ i' = 0
            /\ current' = shuffled
            /\ pos' = 1
            /\ sampled' = {}
            /\ pc' = "node"
     ELSE /\ pc' = "done"
          /\ UNCHANGED <<n, widths, next, i, current, pos, sampled, rng>>
  /\ UNCHANGED <<graph, panicked, last, cfg, lvl, k, j, verdict>>

\* `'outer: for &node in &current`: sample the node's branching factor, or
\* leave the loop when the frontier is used up.
GenNode ==
  /\ pc = "node"
  /\ IF pos <= Len(current)
     THEN \E h \in HalfSamples :
            /\ CanDraw(Draw(Branching(h), <<>>, 0))
            /\ rng' = Drawn(Draw(Branching(h), <<>>, 0))
            /\ k' = Branching(h)
            /\ j' = 0
            /\ sampled' = sampled \cup {current[pos]}
            /\ pc' = "child"
     ELSE /\ pc' = "swap"
          /\ UNCHANGED <<k, j, sampled, rng>>
  /\ UNCHANGED <<graph, panicked, last, cfg, current, next, lvl, n, i, pos,
                 widths, verdict>>

\* One iteration of `for _ in 0..k`: break out of the level at the width cap,
\* else create a node under a random uuid, attach it and push it on next.
GenChild ==
  /\ pc = "child"
  /\ IF j < k
     THEN IF WidthReached(i, n)
          THEN /\ pc' = BreakOuter(pos).pc
               /\ pos' = BreakOuter(pos).pos
               /\ UNCHANGED <<graph, panicked, last, next, i, j, rng>>
          ELSE \E uuid \in GenIds :
                 LET a == add_node_uuid(graph, uuid, "pet", "None") IN
                 /\ CanDraw(Draw(0, <<>>, uuid))
                 /\ rng' = Drawn(Draw(0, <<>>, uuid))
                 /\ IF a.panic
                    THEN /\ panicked' = TRUE
                         /\ pc' = "panic"
                         /\ i' = i + 1
                         /\ UNCHANGED <<graph, last, next, pos, j>>
                    ELSE \E r \in {GenAttach(a.graph, current[pos], uuid, ord) :
                                     ord \in Orders(Closure(a.graph, {current[pos], uuid}))} :
                           /\ graph' = r.graph
                           /\ i' = i + 1
                           /\ last' = [op |-> "add_child", parent |-> current[pos],
                                       child |-> uuid, uuid |-> 0,
                                       result |-> r.result, before |-> a.graph,
                                       again |-> FALSE]
                           /\ IF r.result = "Ok"
                              THEN /\ next' = Append(next, uuid)
                                   /\ j' = j + 1
                                   /\ UNCHANGED <<panicked, pc, pos>>
                              ELSE /\ panicked' = TRUE
                                   /\ pc' = "panic"
                                   /\ UNCHANGED <<next, j, pos>>
     ELSE /\ pos' = pos + 1
          /\ pc' = "node"
          /\ UNCHANGED <<graph, panicked, last, next, i, j, rng>>
  /\ UNCHANGED <<cfg, current, lvl, n, k, widths, sampled, verdict>>

\* std::mem::swap(&mut current, &mut next), and the loop's next round.
GenSwap ==
  /\ pc = "swap"
  /\ current' = next
  /\ next' = current
  /\ lvl' = lvl + 1
  /\ pc' = "level"
  /\ UNCHANGED <<graph, panicked, last, cfg, n, i, pos, k, j, widths, sampled,
                 rng, verdict>>

\* main: validator::validator(&graph, &config) on the returned graph.
Validate ==
  /\ pc = "done"
  /\ \E r \in {validator(graph, cfg, ord).result : ord \in Orders(Met(graph))} :
       verdict' = r
  /\ pc' = "validated"
  /\ UNCHANGED <<graph, panicked, last, cfg, current, next, lvl, n, i, pos, k, j,
                 widths, sampled, rng>>

\* generator::generate, step by step.
Generate == GenStart \/ GenLevel \/ GenNode \/ GenChild \/ GenSwap

GenerateSpec == Init /\ [][Generate]_vars

\* main: generate, then validator on what it returned.
GenNext == Generate \/ Validate

GenSpec == Init /\ [][GenNext]_vars

\* A second call generate(cfg) with the configuration and seed of a call
\* that has returned: a new random source under the same seed, a new graph.
Rerun ==
  /\ pc = "done" /\ rng.mode = "record"
  /\ rng' = [mode |-> "replay", tape |-> rng.tape, first |-> graph]
  /\ graph' = AcyclicGraph_new("Test Graph")
  /\ last' = NoCall
  /\ pc' = "idle"
  /\ current' = <<>> /\ next' = <<>> /\ lvl' = 0 /\ n' = 0 /\ i' = 0
  /\ pos' = 0 /\ k' = 0 /\ j' = 0 /\ widths' = <<>> /\ sampled' = {}
  /\ UNCHANGED <<panicked, cfg, verdict>>

TwiceInit ==
  /\ graph = AcyclicGraph_new("Test Graph")
  /\ panicked = FALSE
  /\ last = NoCall
  /\ GenIdle
  /\ rng = Rng("record")

TwiceNext == Generate \/ Rerun

\* generate called twice with one configuration and one seed.
TwiceSpec == TwiceInit /\ [][TwiceNext]_vars

\* ------------------------------------------------------------------ graph claims

\* b is reachable from a through zero or more edges.
Reaches(g, a, b) == b \in Closure(g, {a})

\* b is reachable from a through one or more edges.
ReachesPlus(g, a, b) == a \in Keys(g) /\ b \in Closure(g, g.nodes[a].childs)

Edges(g) == {e \in Keys(g) \X Uuid : e[2] \in g.nodes[e[1]].childs}

\* C1: after any sequence of add_node / add_child calls, successful or
\* rejected, no node reaches itself through one or more edges.
C1_Acyclic == \A u \in Keys(graph) : ~ReachesPlus(graph, u, u)

\* A call that would close a cycle through two or more existing edges has
\* just been rejected.
C1_Witness ==
  /\ last.op = "add_child" /\ last.result = "Cycle"
  /\ last.parent # last.child
  /\ last.child \in Keys(graph)
  /\ last.parent \notin graph.nodes[last.child].childs
  /\ Cardinality(Edges(graph)) >= 2

\* C2: add_child(parent, child) fails with Cycle whenever child reaches
\* parent through zero or more existing edges (child = parent included), and
\* the rejected call leaves the graph as it was.
C2_CycleRejected ==
  (last.op = "add_child" /\ Reaches(last.before, last.child, last.parent))
    => (last.result = "Cycle" /\ graph = last.before)

\* A call whose child reaches its parent through an existing edge was made.
C2_Witness ==
  /\ last.op = "add_child"
  /\ last.parent # last.child
  /\ Reaches(last.before, last.child, last.parent)
  /\ last.result = "Cycle"

C4_NotFound ==
  (last.op = "add_child"
     /\ (last.parent \notin Keys(last.before) \/ last.child \notin Keys(last.before)))
    => (last.result = "UuidNotFound" /\ graph = last.before)

\* C5: every identifier in any node's childs set is a key of the node map.
C5_NoDangling == \A u \in Keys(graph) : graph.nodes[u].childs \subseteq Keys(graph)

\* An edge to an absent child has just been refused on a graph with edges.
C5_Witness ==
  /\ last.op = "add_child" /\ last.result = "UuidNotFound"
  /\ last.parent \in Keys(graph) /\ last.child \notin Keys(graph)
  /\ Edges(graph) # {}

\* ------------------------------------------------------------------ validator claims

\* The nodes no node lists as a child.
RootSet(g) == {u \in Keys(g) : \A p \in Keys(g) : u \notin g.nodes[p].childs}

\* The number of distinct edge paths from r to u.
RECURSIVE PathCount(_, _, _)
RECURSIVE PathSum(_, _, _)
PathSum(g, r, ps) ==
  IF ps = {} THEN 0
  ELSE LET p == CHOOSE x \in ps : TRUE
       IN PathCount(g, r, p) + PathSum(g, r, ps \ {p})
PathCount(g, r, u) ==
  IF u = r THEN 1 ELSE PathSum(g, r, {p \in Keys(g) : u \in g.nodes[p].childs})

\* Exactly one root, and exactly one path from it to every node.
IsTree(g) ==
  /\ Cardinality(RootSet(g)) = 1
  /\ \A r \in RootSet(g), u \in Keys(g) : PathCount(g, r, u) = 1

\* Nodes {a, b, c} with the edges a -> b, a -> c, b -> c.
Diamond(g) ==
  \E a, b, c \in Keys(g) :
    /\ Keys(g) = {a, b, c} /\ Cardinality({a, b, c}) = 3
    /\ g.nodes[a].childs = {b, c}
    /\ g.nodes[b].childs = {c}
    /\ g.nodes[c].childs = {}

\* C9: on every graph add_node / add_child can build, under every iteration
\* order, validator returns Ok exactly when there is one root and one path
\* from it to every node; a graph with zero or several roots is rejected for
\* its roots and the graph a -> b, a -> c, b -> c for its paths.
C9_ValidatorIff ==
  \A ord \in Orders(Met(graph)) :
    LET v == validator(graph, cfg, ord) IN
    /\ v.result \in {"Ok", "Err"}
    /\ (v.result = "Ok") <=> IsTree(graph)
    /\ v.root_count = Cardinality(RootSet(graph))
    /\ Cardinality(RootSet(graph)) # 1 => (v.result = "Err" /\ v.why = "roots")
    /\ Diamond(graph) => (v.result = "Err" /\ v.why = "paths")

\* The graph a -> b, a -> c, b -> c has been built.
C9_Witness == Diamond(graph)

\* C10: a graph of one node and no edges validates with root count 1 and max
\* depth 0; both averages divide by zero as floats (NaN) and abort nothing.
C10_SingleNode ==
  (Cardinality(Keys(graph)) = 1 /\ Edges(graph) = {}) =>
    \A ord \in Orders(Met(graph)) :
      LET v == validator(graph, cfg, ord) IN
      /\ v.result = "Ok"
      /\ v.root_count = 1
      /\ v.max_deepth = 0
      /\ v.average_childs.kind = "NaN"
      /\ v.average_width.kind = "NaN"

\* A single node is in the store.
C10_Witness ==
  /\ Cardinality(Keys(graph)) = 1 /\ Edges(graph) = {}
  /\ last.op \in {"add_node", "add_child"}

\* ------------------------------------------------------------------ generator claims

\* generate has returned Ok(graph).
Returned == pc \in {"done", "validated"}

\* The number of edges between u and the root of its tree.
Depth(g, u) == Cardinality({a \in Keys(g) : ReachesPlus(g, a, u)})

\* C6: the graph generate returns has exactly one parentless node, the node
\* named "Root", and exactly one path from it to every node, and validator
\* returns Ok on it under every iteration order.
C6_GeneratorTree ==
  Returned =>
    /\ IsTree(graph)
    /\ RootSet(graph) = {u \in Keys(graph) : graph.nodes[u].name = "Root"}
    /\ \A ord \in Orders(Met(graph)) : validator(graph, cfg, ord).result = "Ok"
    /\ pc = "validated" => verdict = "Ok"

\* A generated graph of three or more nodes has been validated.
C6_Witness == pc = "validated" /\ Cardinality(Keys(graph)) >= 3

\* C7: at every moment of generate, the nodes at each level L > 0 are no more
\* than that level's target width n, and n is the sampled width rounded to
\* the nearest integer and clamped to a minimum of 1.
C7_WidthCap ==
  /\ \A L \in 1..Len(widths) :
       /\ Cardinality({u \in Keys(graph) : Depth(graph, u) = L}) <= widths[L]
       /\ widths[L] \in {TargetWidth(h) : h \in HalfSamples}
  /\ pc \in {"node", "child"} => (n = widths[Len(widths)] /\ i <= n)
  /\ \A h \in HalfSamples :
       /\ TargetWidth(h) >= 1
       /\ h <= 2 => TargetWidth(h) = 1
       /\ h > 2 => (2 * TargetWidth(h) - 1 <= h /\ h <= 2 * TargetWidth(h))

\* A level hit its cap: a parent wanted more children than the width allowed.
C7_Witness == pc = "swap" /\ j < k /\ i = n /\ Len(next) = n

\* C8: the returned graph has cfg.deepth levels: the validator's max_deepth
\* plus one equals cfg.deepth.
C8_DepthExact ==
  Returned => \A ord \in Orders(Met(graph)) :
                max_deepth(graph, parents(graph, ord)) + 1 = cfg.deepth

\* ------------------------------------------------------------------ determinism

\* What C11 compares of a returned graph: its node count, its edge count and
\* the number of nodes on every level below the root.
LevelSizes(g) ==
  [l \in 1..Cardinality(Keys(g)) |-> Cardinality({u \in Keys(g) : Depth(g, u) = l - 1})]

Shape(g) == [nodes |-> Cardinality(Keys(g)), edges |-> Cardinality(Edges(g)),
             level_sizes |-> LevelSizes(g)]

\* C11: a second call of generate with the configuration and the seed of a
\* first call, hence with the same stream of random draws, fails nowhere the
\* first call did not, uses the stream up, and returns a graph with the node
\* count, the edge count and the level sizes of the first call's graph.
C11_SameSeedSameShape ==
  rng.mode = "replay" =>
    /\ pc \notin {"panic", "error"}
    /\ pc = "done" => (rng.tape = <<>> /\ Shape(graph) = Shape(rng.first))

\* A replayed call has returned a graph of four nodes, one of them with two
\* children.
C11_Witness ==
  /\ rng.mode = "replay" /\ pc = "done"
  /\ Cardinality(Keys(graph)) = 4
  /\ \E u \in Keys(graph) : Cardinality(graph.nodes[u].childs) = 2

\* ------------------------------------------------------------------ parents

\* C12: on every reachable graph and under every iteration order, parents()
\* is the reverse adjacency: its keys are the identifiers with at least one
\* parent, and p is in parents()[c] exactly when c is in the childs of node p.
C12_ReverseAdjacency ==
  \A ord \in Orders(Met(graph)) :
    LET par == parents(graph, ord) IN
    /\ DOMAIN par = {c \in Uuid : \E p \in Keys(graph) : c \in graph.nodes[p].childs}
    /\ \A c \in DOMAIN par : \A p \in Uuid :
         p \in par[c] <=> (p \in Keys(graph) /\ c \in graph.nodes[p].childs)

\* A graph of three nodes where one node has two parents and another none.
C12_Witness ==
  /\ Cardinality(Keys(graph)) = 3
  /\ \E c \in Keys(graph) :
       Cardinality({p \in Keys(graph) : c \in graph.nodes[p].childs}) = 2
  /\ \E r \in Keys(graph) : \A p \in Keys(graph) : r \notin graph.nodes[p].childs

\* ------------------------------------------------------------------ append-only

\* C13: every step of add_node / add_child keeps every node and every edge:
\* the node identifiers and each node's childs only grow, and the name and
\* the data of a node that exists never change.
C13_AppendOnly ==
  [][/\ Keys(graph) \subseteq Keys(graph')
     /\ \A u \in Keys(graph) :
          /\ graph.nodes[u].childs \subseteq graph'.nodes[u].childs
          /\ graph'.nodes[u].name = graph.nodes[u].name
          /\ graph'.nodes[u].data = graph.nodes[u].data]_vars

\* An accepted add_child on a parent that already had a child.
C13_Witness ==
  /\ last.op = "add_child" /\ last.result = "Ok"
  /\ last.before.nodes[last.parent].childs # {}
  /\ Cardinality(graph.nodes[last.parent].childs) = 2

\* ------------------------------------------------------------------ rendering claims

\* The identifier a rendered text stands for.
Decode(short) == CHOOSE u \in Uuid : ShortUuid_from_uuid(u) = short

\* s holds identifiers (as text) in strictly ascending identifier order.
Ascending(s) == \A x \in 1..Len(s) : \A y \in 1..Len(s) :
                  x < y => Decode(s[x]) < Decode(s[y])

\* The lines of out of the given kind, in order.
LinesOf(out, kind) == SelectSeq(out, LAMBDA l : l.kind = kind)

DeclaredIds(out) ==
  LET ls == LinesOf(out, "node") IN [x \in 1..Len(ls) |-> ls[x].id]

\* C14: under every iteration order of the hash map and the hash sets, dot()
\* and mermaid() declare every node once, in ascending identifier order, and
\* list each node's children in ascending identifier order; a node without
\* children gets its declaration and no edge part; and the whole output is
\* the same text under every iteration order.
C14_RenderSorted ==
  LET ref == CHOOSE o \in Orders(Met(graph)) : TRUE IN
  \A ord \in Orders(Met(graph)) :
    LET d == dot(graph, ord)
        m == mermaid(graph, ord)
    IN /\ d = dot(graph, ref)
       /\ m = mermaid(graph, ref)
       /\ Ascending(DeclaredIds(d)) /\ Ascending(DeclaredIds(m))
       /\ {Decode(l.id) : l \in Range(LinesOf(d, "node"))} = Keys(graph)
       /\ {Decode(l.id) : l \in Range(LinesOf(m, "node"))} = Keys(graph)
       /\ Len(LinesOf(d, "node")) = Cardinality(Keys(graph))
       /\ Len(LinesOf(m, "node")) = Cardinality(Keys(graph))
       /\ \A x \in 1..Len(d) :
            d[x].kind = "edge" =>
              /\ d[x - 1].kind = "node" /\ d[x - 1].id = d[x].id
              /\ d[x].to # <<>> /\ Ascending(d[x].to)
              /\ {Decode(c) : c \in Range(d[x].to)}
                   = graph.nodes[Decode(d[x].id)].childs
       /\ \A x \in 1..Len(d) :
            (d[x].kind = "node" /\ graph.nodes[Decode(d[x].id)].childs = {})
              => d[x + 1].kind # "edge"
       /\ \A x \in 1..Len(d) :
            (d[x].kind = "node" /\ graph.nodes[Decode(d[x].id)].childs # {})
              => d[x + 1].kind = "edge"
       /\ \A l \in Range(LinesOf(m, "node")) :
            /\ Ascending(l.to)
            /\ {Decode(c) : c \in Range(l.to)} = graph.nodes[Decode(l.id)].childs

\* A graph of three nodes, one with two children and two with none.
C14_Witness ==
  /\ Cardinality(Keys(graph)) = 3
  /\ \E u \in Keys(graph) : Cardinality(graph.nodes[u].childs) = 2
  /\ \E u \in Keys(graph) : graph.nodes[u].childs = {}

\* ------------------------------------------------------------------ generator claims, continued

\* C15: every add_child call generate makes returns Ok, never Cycle,
\* ChildAlreadyExist or UuidNotFound, so its unwrap never panics: the child
\* was created just before the call, has no child and no parent, and the
\* parent is another node of the graph.
C15_NoRejection ==
  last.op = "add_child" =>
    /\ last.result = "Ok"
    /\ last.parent \in Keys(last.before) /\ last.child \in Keys(last.before)
    /\ last.parent # last.child
    /\ last.before.nodes[last.child].childs = {}
    /\ \A p \in Keys(last.before) : last.child \notin last.before.nodes[p].childs

\* generate has attached a fourth node, two edges below the root.
C15_Witness ==
  /\ last.op = "add_child" /\ last.result = "Ok"
  /\ Cardinality(Keys(graph)) = 4
  /\ Depth(graph, last.child) = 2

\* A child is attempted while the level's created count has reached the
\* target width.
AtCap == pc = "child" /\ j < k /\ i >= n

\* C16: the step that attempts a child at the cap creates nothing and leaves
\* the whole level: every frontier node after the one being processed, in
\* shuffled order, has then received no branching sample and no child, and
\* the next step is the swap, which creates nothing either.
C16_GreedyStop ==
  [][/\ AtCap =>
          /\ pc' = "swap"
          /\ graph' = graph /\ next' = next /\ sampled' = sampled
          /\ \A q \in (pos + 1)..Len(current) :
               /\ current[q] \notin sampled'
               /\ graph'.nodes[current[q]].childs = {}
     /\ pc = "swap" => (pc' = "level" /\ graph' = graph /\ sampled' = sampled)]_vars

\* The level was left at the cap with a frontier node still to come.
C16_Witness ==
  /\ pc = "swap" /\ j < k /\ i = n
  /\ pos < Len(current)
  /\ current[Len(current)] \notin sampled

\* ------------------------------------------------------------------ termination

\* C17: on every reachable graph, tree-shaped or not, and under every
\* iteration order, every loop of the traversals ends, and within a number
\* of iterations the node count N bounds: deepths within N rounds, levels
\* and have_only_one_path from any node within N rounds and N nodes taken
\* off the queue, the cycle scan of add_child for any two identifiers within
\* N + 1 nodes taken off the queue.
C17_Terminates ==
  LET N == Cardinality(Keys(graph))
      leaves == {u \in Keys(graph) : graph.nodes[u].childs = {}}
  IN \A ord \in Orders(Met(graph)) :
       /\ deepths_rounds(parents(graph, ord), leaves, N) <= N
       /\ \A root \in Keys(graph) :
            /\ levels_rounds(graph, <<root>>, ord, N) <= N
            /\ have_only_one_path_steps(graph, <<root>>, {root}, ord, N) <= N
       /\ \A parent \in Uuid, child \in Uuid :
            check_cycle_steps(graph, parent, <<child>>, {child}, ord, N + 1) <= N + 1

\* A graph that is no tree: three nodes and all three edges an acyclic graph
\* on them can have, so that deepths and levels need all N rounds.
C17_Witness ==
  /\ Cardinality(Keys(graph)) = 3
  /\ Cardinality(Edges(graph)) = 3
  /\ \A ord \in Orders(Met(graph)) :
       deepths_rounds(parents(graph, ord),
                      {u \in Keys(graph) : graph.nodes[u].childs = {}}, 3) = 3

\* ------------------------------------------------------------------ add_child, frame

\* C18: add_child(parent, child) returns Ok exactly when both identifiers
\* are keys of the node map, child does not reach parent through zero or
\* more edges, and child is not yet in parent's childs; and an accepted call
\* changes nothing but parent's childs, which gains child.
C18_SuccessAndFrame ==
  last.op = "add_child" =>
    LET b == last.before
        p == last.parent
        c == last.child
    IN /\ last.result = "Ok" <=>
            /\ p \in Keys(b) /\ c \in Keys(b)
            /\ ~Reaches(b, c, p)
            /\ c \notin b.nodes[p].childs
       /\ last.result = "Ok" =>
            /\ graph.name = b.name
            /\ Keys(graph) = Keys(b)
            /\ \A u \in Keys(b) :
                 /\ graph.nodes[u].name = b.nodes[u].name
                 /\ graph.nodes[u].data = b.nodes[u].data
                 /\ graph.nodes[u].childs =
                      IF u = p THEN b.nodes[u].childs \cup {c} ELSE b.nodes[u].childs

\* An accepted call on a graph where another node already had a child.
C18_Witness ==
  /\ last.op = "add_child" /\ last.result = "Ok"
  /\ \E u \in Keys(last.before) :
       u # last.parent /\ last.before.nodes[u].childs # {}

\* ------------------------------------------------------------------ depth, two ways

\* The number of edges of the longest path that starts at u.
RECURSIVE Height(_, _)
Height(g, u) ==
  IF g.nodes[u].childs = {} THEN 0
  ELSE LET hs == {Height(g, c) : c \in g.nodes[u].childs}
       IN 1 + CHOOSE m \in hs : \A h \in hs : h <= m

\* C19: on every reachable graph with exactly one parentless node, tree or
\* not, and under every iteration order, max_deepth (computed from the
\* leaves upward through parents()) equals levels(graph, root).len() - 1
\* (computed from the root downward), and both are the number of edges of
\* the longest path from the root.
C19_DepthTwoWays ==
  Cardinality(RootSet(graph)) = 1 =>
    LET root == CHOOSE r \in RootSet(graph) : TRUE IN
    \A ord \in Orders(Met(graph)) :
      /\ max_deepth(graph, parents(graph, ord)) = Len(levels(graph, root, ord)) - 1
      /\ max_deepth(graph, parents(graph, ord)) = Height(graph, root)

\* A graph with one root that is no tree: a -> b -> c and a -> c.
C19_Witness ==
  /\ Cardinality(RootSet(graph)) = 1
  /\ Cardinality(Keys(graph)) = 3
  /\ Cardinality(Edges(graph)) = 3

\* ------------------------------------------------------------------ depth bound

\* C20: the graph generate returns for a cfg.deepth of 1 or more has no node
\* more than cfg.deepth - 1 edges below the root; a level that received no
\* node is followed by empty levels only; and inside generate, a level begun
\* from an empty frontier creates nothing.
C20_DepthBound ==
  /\ (Returned /\ cfg.deepth >= 1) =>
       /\ \A u \in Keys(graph) : Depth(graph, u) <= cfg.deepth - 1
       /\ \A l \in 1..Cardinality(Keys(graph)) : \A m \in 1..Cardinality(Keys(graph)) :
            (l < m /\ LevelSizes(graph)[l] = 0) => LevelSizes(graph)[m] = 0
  /\ (pc \in {"node", "child", "swap"} /\ current = <<>>) => (next = <<>> /\ i = 0)

\* generate has returned, for cfg.deepth = 3, a graph with a node two edges
\* below the root.
C20_Witness ==
  /\ Returned /\ cfg.deepth = 3
  /\ \E u \in Keys(graph) : Depth(graph, u) = 2

====
